---- MODULE Spec2Model ----
(***************************************************************************)
(* A model of aptest's `run` subcommand (src/src/main.rs): the coordinator *)
(* thread of main, the Ctrl-C handler thread feeding the mpsc channel, and *)
(* the validator child writing its startup output.  Every `.expect(..)`    *)
(* of the source is a panic of the main thread: the process ends with the  *)
(* Rust runtime's panic status and runs no cleanup.  `pretty_expect!` and  *)
(* `cleanup_expect!` end the process through std::process::exit(1).        *)
(***************************************************************************)
EXTENDS Integers, Sequences, FiniteSets, TLC

VARIABLES
    args,            \* Args: the parsed command line of `run`
    pc,              \* position of the main thread
    exit_code,       \* <<>> while the process runs, <<code>> once it ended
    chan,            \* messages queued in the mpsc channel (tx -> rx)
    fired,           \* how many times the Ctrl-C handler has run
    spawned,         \* child processes successfully spawned
    signalled,       \* child processes Child::kill was delivered to
    reaped,          \* child processes waited on
    stdout_written,  \* bytes the validator has written to its stdout pipe
    stdout_open,     \* the validator still holds its stdout open
    node_text,       \* what the validator prints first (text of the snapshot)
    node_output,     \* start_node's node_output: <<>> or <<snapshot text>>
    mint_key_path,   \* start_node's mint_key_path: <<>> or <<path>>
    faucet_arg,      \* --mint-key-file-path given to aptos-faucet: <<>> or <<path>>
    children,        \* main's `children`: <<>> or <<tuple returned by start_node>>
    cl_children,     \* cleanup's parameter `children`: <<>> or <<tuple>>
    cl_ret,          \* what follows the running cleanup call: "exit1" or "done"
    cleanup_calls,   \* number of calls of cleanup
    events,          \* the commands and waits issued so far, in order
    sleeps,          \* the durations slept so far, in order
    fund_status,     \* <<>> or <<exit status of `aptos account fund`>>
    publish_status,  \* <<>> or <<exit status of `aptos move publish`>>
    e2e_status,      \* <<>> or <<exit status of `npm run test`>>
    node_drained,    \* cleanup's node_output (validator stdout drained)
    faucet_drained,  \* cleanup's faucet_output (faucet stderr drained)
    log_file,        \* validator.log: <<>> (absent) or <<content>>
    compile_status,  \* <<>> or <<exit status of `aptos move compile`>>
    publish_result,  \* <<>> or <<what publish() returned: "Ok" or "Err">>
    wait_entry_fired \* <<>> or <<value of fired when the wait was entered>>

vars == <<args, pc, exit_code, chan, fired, spawned, signalled, reaped,
          stdout_written, stdout_open, node_text, node_output, mint_key_path,
          faucet_arg, children, cl_children, cl_ret, cleanup_calls, events,
          sleeps, fund_status, publish_status, e2e_status, node_drained,
          faucet_drained, log_file, compile_status, publish_result,
          wait_entry_fired>>

-----------------------------------------------------------------------------
(* Bounds of the model. *)

\* largest start_delay tried
MaxDelay == 3
\* most Ctrl-C deliveries in one run
MaxSignals == 2
\* bytes the validator writes per write
WriteChunk == 225
\* longest credential path tried by the scanner checks
MaxPathLen == 2
\* most tokens of a free-form startup text
MaxTokens == 3

(* Program constants. *)

\* let mut buffer: [u8; 450]
SNAPSHOT_SIZE == 450
\* exit status of a Rust process whose main thread panicked
PANIC_EXIT == 101

-----------------------------------------------------------------------------
(* Text: a string is a sequence of one-character strings. *)

Marker ==
    <<"A","p","t","o","s"," ","r","o","o","t"," ","k","e","y"," ",
      "p","a","t","h">>

\* str::contains
Contains(s, sub) ==
    \E i \in 0..(Len(s) - Len(sub)) : SubSeq(s, i + 1, i + Len(sub)) = sub

\* index of the first c in s, 0 when there is none
IndexOf(s, c) ==
    IF \E i \in 1..Len(s) : s[i] = c
    THEN CHOOSE i \in 1..Len(s) : s[i] = c /\ \A j \in 1..(i - 1) : s[j] # c
    ELSE 0

RECURSIVE Split(_, _)
\* str::split(c), collected: the pieces between the occurrences of c
Split(s, c) ==
    LET i == IndexOf(s, c) IN
    IF i = 0 THEN <<s>>
    ELSE <<SubSeq(s, 1, i - 1)>> \o Split(SubSeq(s, i + 1, Len(s)), c)

RECURSIVE SkipWhileNoMarker(_)
\* .skip_while(|x| !x.contains("Aptos root key path"))
SkipWhileNoMarker(pieces) ==
    IF pieces = <<>> THEN <<>>
    ELSE IF ~Contains(Head(pieces), Marker) THEN SkipWhileNoMarker(Tail(pieces))
    ELSE pieces

\* char::is_whitespace, on the characters of the model
IsWhitespace(c) == c \in {" ", "\t", "\r", "\n"}

RECURSIVE TrimStart(_)
TrimStart(s) ==
    IF s # <<>> /\ IsWhitespace(Head(s)) THEN TrimStart(Tail(s)) ELSE s

RECURSIVE TrimEnd(_)
TrimEnd(s) ==
    IF s # <<>> /\ IsWhitespace(s[Len(s)])
    THEN TrimEnd(SubSeq(s, 1, Len(s) - 1)) ELSE s

\* str::trim
Trim(s) == TrimEnd(TrimStart(s))

\* path.retain(|x| x != '\"')
RetainNonQuote(s) == SelectSeq(s, LAMBDA x : x # "\"")

\* The scanner with the skip_while left out: the piece after the first ':'.
find_mint_path_noskip(line) ==
    LET rest == Split(line, ":") IN
    IF Len(rest) < 2 THEN [ok |-> FALSE, path |-> <<>>]
    ELSE [ok |-> TRUE,
          path |-> RetainNonQuote(Trim(Head(Split(rest[2], "\n"))))]

\* find_mint_path: ok = FALSE is the panic of .expect on nth(1) = None
find_mint_path(line) ==
    LET rest == SkipWhileNoMarker(Split(line, ":")) IN
    IF Len(rest) < 2 THEN [ok |-> FALSE, path |-> <<>>]
    ELSE [ok |-> TRUE,
          path |-> RetainNonQuote(Trim(Head(Split(rest[2], "\n"))))]

-----------------------------------------------------------------------------
(* Inputs. *)

\* struct Args, one record per command line of `run`
RunArgs ==
    [no_compile : BOOLEAN, no_publish : BOOLEAN, no_faucet : BOOLEAN,
     interactive : BOOLEAN, log_node : BOOLEAN, start_delay : 0..MaxDelay]

\* the startup text of test_mint_path's shape:
\* <prefix lines><marker>: "<path>"<line break><rest>
WellFormedText(prefix, path, rest) ==
    prefix \o Marker \o <<":", " ", "\"">> \o path \o <<"\"", "\n">> \o rest

\* the startup texts a validator of the model prints
StartupTexts ==
    { WellFormedText(<<>>, <<"/", "k">>, <<"W", ":", " ", "s">>),
      WellFormedText(<<"a", ":", "b", "\n">>, <<"/", ":", "k">>, <<>>),
      <<"W", ":", " ", "s", "\n">> }

RECURSIVE SeqsUpTo(_, _)
\* the sequences over S of length at most n
SeqsUpTo(S, n) ==
    IF n = 0 THEN { <<>> }
    ELSE LET shorter == SeqsUpTo(S, n - 1) IN
         shorter \cup { Append(q, x) : q \in shorter, x \in S }

RECURSIVE Flatten(_)
Flatten(ss) == IF ss = <<>> THEN <<>> ELSE Head(ss) \o Flatten(Tail(ss))

\* the marker phrase short of its last character
MarkerCut == SubSeq(Marker, 1, Len(Marker) - 1)

Tokens ==
    { Marker, MarkerCut, <<":">>, <<"\n">>, <<" ">>, <<"\"">>, <<"k">> }

\* free-form startup texts
FreeTexts == { Flatten(q) : q \in SeqsUpTo(Tokens, MaxTokens) }

\* credential paths: no quote, no line break
PathChars == { "/", "k", ":", " " }
Paths == SeqsUpTo(PathChars, MaxPathLen)

PrefixLines == { <<>>, <<"a", "\n">>, <<"a", ":", "b", "\n">> }
Rests == { <<>>, <<"W", ":", " ", "s">> }

WellFormedTexts ==
    { WellFormedText(pre, p, r) : pre \in PrefixLines, p \in Paths, r \in Rests }

ScanTexts == FreeTexts \cup WellFormedTexts

\* every snapshot text of the model
SnapshotTexts == StartupTexts \cup ScanTexts

\* find_mint_path on each snapshot text, tabulated once
ScanResult == [line \in SnapshotTexts |-> find_mint_path(line)]

\* what wait_with_output may find left in a child's pipe
DrainedTexts(tag) == { <<>>, <<tag>> }

-----------------------------------------------------------------------------
(* The process ending. *)

\* std::process::exit(code), and main returning (code 0)
Exit(code) ==
    /\ pc' = "exited"
    /\ exit_code' = <<code>>

\* a failed .expect(..): the main thread panics
Panic == Exit(PANIC_EXIT)

\* cleanup(children, args) is entered; `ret` is what follows the call
CallCleanup(tuple, ret) ==
    /\ pc' = "cl_kill_node"
    /\ cl_children' = <<tuple>>
    /\ cl_ret' = ret
    /\ cleanup_calls' = cleanup_calls + 1

\* the statement after the cleanup call: exit(1), or main's end
ReturnFromCleanup == Exit(IF cl_ret = "exit1" THEN 1 ELSE 0)

childVars == <<spawned, signalled, reaped>>
pipeVars == <<stdout_written, stdout_open, node_text>>
nodeVars == <<node_output, mint_key_path, faucet_arg, children>>
cleanupVars == <<cl_children, cl_ret, cleanup_calls>>
statusVars == <<fund_status, publish_status, e2e_status>>
logVars == <<node_drained, faucet_drained, log_file>>
signalVars == <<chan, fired>>
histVars == <<compile_status, publish_result, wait_entry_fired>>

Init ==
    /\ args \in RunArgs
    /\ pc = "compile"
    /\ exit_code = <<>>
    /\ chan = 0
    /\ fired = 0
    /\ spawned = {}
    /\ signalled = {}
    /\ reaped = {}
    /\ stdout_written = 0
    /\ stdout_open = TRUE
    /\ node_text \in StartupTexts
    /\ node_output = <<>>
    /\ mint_key_path = <<>>
    /\ faucet_arg = <<>>
    /\ children = <<>>
    /\ cl_children = <<>>
    /\ cl_ret = "done"
    /\ cleanup_calls = 0
    /\ events = <<>>
    /\ sleeps = <<>>
    /\ fund_status = <<>>
    /\ publish_status = <<>>
    /\ e2e_status = <<>>
    /\ node_drained = <<>>
    /\ faucet_drained = <<>>
    /\ log_file = <<>>
    /\ compile_status = <<>>
    /\ publish_result = <<>>
    /\ wait_entry_fired = <<>>

-----------------------------------------------------------------------------
(* The environment: the Ctrl-C handler thread and the validator child. *)

\* ctrlc handler: tx.send(())
CtrlC ==
    /\ pc # "exited"
    /\ fired < MaxSignals
    /\ fired' = fired + 1
    /\ chan' = chan + 1
    /\ UNCHANGED <<args, histVars, pc, exit_code, childVars, pipeVars, nodeVars,
                   cleanupVars, events, sleeps, statusVars, logVars>>

\* the validator writes to its stdout
ValidatorWrite ==
    /\ "validator" \in spawned
    /\ "validator" \notin signalled
    /\ stdout_open
    /\ stdout_written < SNAPSHOT_SIZE
    /\ stdout_written' = stdout_written + WriteChunk
    /\ UNCHANGED <<args, histVars, pc, exit_code, signalVars, childVars, stdout_open,
                   node_text, nodeVars, cleanupVars, events, sleeps,
                   statusVars, logVars>>

\* the validator closes its stdout (it exits early)
ValidatorClose ==
    /\ "validator" \in spawned
    /\ "validator" \notin signalled
    /\ stdout_open
    /\ stdout_open' = FALSE
    /\ UNCHANGED <<args, histVars, pc, exit_code, signalVars, childVars, stdout_written,
                   node_text, nodeVars, cleanupVars, events, sleeps,
                   statusVars, logVars>>

-----------------------------------------------------------------------------
(* main, up to start_node. *)

\* exit statuses a finished command reports (0: success)
ExitStatuses == {0, 1}

\* main with publish() called ahead of start_node
AfterCompile_PublishFirst == "fetch_account"

\* where main goes on after the compilation block: start_node
AfterCompile == "spawn_node"

\* main with the compiler's exit status left unread
Compile_StatusIgnored ==
    /\ pc = "compile"
    /\ IF args.no_compile
       THEN /\ pc' = AfterCompile
            /\ UNCHANGED <<exit_code, events, compile_status>>
       ELSE /\ events' = Append(events, "compile")
            /\ \/ /\ Panic
                  /\ UNCHANGED compile_status
               \/ /\ \E st \in ExitStatuses : compile_status' = <<st>>
                  /\ pc' = AfterCompile
                  /\ UNCHANGED exit_code
    /\ UNCHANGED <<args, publish_result, wait_entry_fired, signalVars,
                   childVars, pipeVars, nodeVars, cleanupVars, sleeps,
                   statusVars, logVars>>

\* main: `if !args.no_compile { aptos move compile }`
Compile ==
    /\ pc = "compile"
    /\ IF args.no_compile
       THEN /\ pc' = AfterCompile
            /\ UNCHANGED <<exit_code, events, compile_status>>
       ELSE /\ events' = Append(events, "compile")
            /\ \/ /\ Panic                 \* .status() failed: .expect
                  /\ UNCHANGED compile_status
               \/ /\ compile_status' = <<1>>
                  /\ Exit(1)               \* !exit_code.success()
               \/ /\ compile_status' = <<0>>
                  /\ pc' = AfterCompile    \* compiled
                  /\ UNCHANGED exit_code
    /\ UNCHANGED <<args, publish_result, wait_entry_fired, signalVars, childVars, pipeVars, nodeVars,
                   cleanupVars, sleeps, statusVars, logVars>>

-----------------------------------------------------------------------------
(* start_node. *)

\* where main goes on once start_node has returned
AfterStartNode == IF args.no_publish THEN "mode" ELSE "fetch_account"

\* the tuple start_node hands on: (node_child, faucet?, node_output)
NodeTuple(withFaucet) ==
    [node |-> "validator", faucet |-> withFaucet,
     scanned_output |-> node_output[1]]

\* Command::new("aptos-node").spawn() under pretty_expect!
SpawnNode ==
    /\ pc = "spawn_node"
    /\ events' = Append(events, "validator_spawn")
    /\ \/ /\ Exit(1)
          /\ UNCHANGED spawned
       \/ /\ spawned' = spawned \cup {"validator"}
          /\ pc' = "read_exact"
          /\ UNCHANGED exit_code
    /\ UNCHANGED <<args, histVars, signalVars, signalled, reaped, pipeVars, nodeVars,
                   cleanupVars, sleeps, statusVars, logVars>>

\* read_exact that keeps waiting on a stream that has ended
ReadExact_NoEof ==
    /\ pc = "read_exact"
    /\ stdout_written >= SNAPSHOT_SIZE
    /\ node_output' = <<node_text>>
    /\ pc' = "find_mint_path"
    /\ UNCHANGED <<args, histVars, exit_code, signalVars, childVars,
                   pipeVars, mint_key_path, faucet_arg, children,
                   cleanupVars, events, sleeps, statusVars, logVars>>

\* read_exact(&mut buffer).expect(..): blocks until 450 bytes are there,
\* fails when the stream ended before
ReadExact ==
    /\ pc = "read_exact"
    /\ \/ /\ stdout_written >= SNAPSHOT_SIZE
          /\ node_output' = <<node_text>>
          /\ pc' = "find_mint_path"
          /\ UNCHANGED exit_code
       \/ /\ stdout_written < SNAPSHOT_SIZE
          /\ ~stdout_open
          /\ Panic
          /\ UNCHANGED node_output
    /\ UNCHANGED <<args, histVars, signalVars, childVars, pipeVars, mint_key_path,
                   faucet_arg, children, cleanupVars, events, sleeps,
                   statusVars, logVars>>

\* start_node with the test on no_faucet inverted
AfterScan_Inverted == IF args.no_faucet THEN "sleep_half" ELSE "sleep_full"

\* start_node: `if !args.no_faucet { .. }`
AfterScan == IF args.no_faucet THEN "sleep_full" ELSE "sleep_half"

\* let mint_key_path = find_mint_path(node_output.clone())
FindMintPath ==
    /\ pc = "find_mint_path"
    /\ events' = Append(events, "scan")
    /\ LET r == ScanResult[node_output[1]] IN
       IF r.ok
       THEN /\ mint_key_path' = <<r.path>>
            /\ pc' = AfterScan
            /\ UNCHANGED exit_code
       ELSE /\ Panic
            /\ UNCHANGED mint_key_path
    /\ UNCHANGED <<args, histVars, signalVars, childVars, pipeVars, node_output,
                   faucet_arg, children, cleanupVars, sleeps, statusVars,
                   logVars>>

\* args.start_delay / 2 on u64
HalfDelay == args.start_delay \div 2

\* sleep(start_delay / 2) before the faucet is spawned
SleepHalf ==
    /\ pc = "sleep_half"
    /\ sleeps' = Append(sleeps, HalfDelay)
    /\ pc' = "spawn_faucet"
    /\ UNCHANGED <<args, histVars, exit_code, signalVars, childVars, pipeVars, nodeVars,
                   cleanupVars, events, statusVars, logVars>>

\* Command::new("aptos-faucet").spawn() under cleanup_expect!
SpawnFaucet ==
    /\ pc = "spawn_faucet"
    /\ events' = Append(events, "faucet_spawn")
    /\ faucet_arg' = mint_key_path
    /\ \/ /\ CallCleanup(NodeTuple(FALSE), "exit1")
          /\ UNCHANGED spawned
       \/ /\ spawned' = spawned \cup {"faucet"}
          /\ pc' = "sleep_warmup"
          /\ UNCHANGED cleanupVars
    /\ UNCHANGED <<args, histVars, exit_code, signalVars, signalled, reaped, pipeVars,
                   node_output, mint_key_path, children, sleeps, statusVars,
                   logVars>>

\* sleep(start_delay / 2); return (node_child, Some(faucet_child), node_output)
SleepWarmup ==
    /\ pc = "sleep_warmup"
    /\ sleeps' = Append(sleeps, HalfDelay)
    /\ children' = <<NodeTuple(TRUE)>>
    /\ pc' = AfterStartNode
    /\ UNCHANGED <<args, histVars, exit_code, signalVars, childVars, pipeVars,
                   node_output, mint_key_path, faucet_arg, cleanupVars,
                   events, statusVars, logVars>>

\* sleep(start_delay); (node_child, None, node_output)
SleepFull ==
    /\ pc = "sleep_full"
    /\ sleeps' = Append(sleeps, args.start_delay)
    /\ children' = <<NodeTuple(FALSE)>>
    /\ pc' = AfterStartNode
    /\ UNCHANGED <<args, histVars, exit_code, signalVars, childVars, pipeVars,
                   node_output, mint_key_path, faucet_arg, cleanupVars,
                   events, statusVars, logVars>>

-----------------------------------------------------------------------------
(* publish. *)

\* fetch_account(): three .expect(..) on .aptos/config.yaml
FetchAccount ==
    /\ pc = "fetch_account"
    /\ \/ Panic
       \/ /\ pc' = "fund"
          /\ UNCHANGED exit_code
    /\ UNCHANGED <<args, histVars, signalVars, childVars, pipeVars, nodeVars,
                   cleanupVars, events, sleeps, statusVars, logVars>>

\* publish() returning Err when the funding command exits non-zero
Fund_StatusChecked ==
    /\ pc = "fund"
    /\ events' = Append(events, "fund")
    /\ \/ /\ Panic
          /\ UNCHANGED <<fund_status, publish_result, cleanupVars>>
       \/ /\ fund_status' = <<0>>
          /\ pc' = "publish"
          /\ UNCHANGED <<exit_code, publish_result, cleanupVars>>
       \/ /\ fund_status' = <<1>>
          /\ publish_result' = <<"Err">>
          /\ CallCleanup(children[1], "exit1")
          /\ UNCHANGED exit_code
    /\ UNCHANGED <<args, compile_status, wait_entry_fired, signalVars,
                   childVars, pipeVars, nodeVars, sleeps, publish_status,
                   e2e_status, logVars>>

\* `aptos account fund`: .status().expect(..), the status itself unread
Fund ==
    /\ pc = "fund"
    /\ events' = Append(events, "fund")
    /\ \/ /\ Panic
          /\ UNCHANGED fund_status
       \/ /\ \E st \in ExitStatuses : fund_status' = <<st>>
          /\ pc' = "publish"
          /\ UNCHANGED exit_code
    /\ UNCHANGED <<args, histVars, signalVars, childVars, pipeVars, nodeVars,
                   cleanupVars, sleeps, publish_status, e2e_status, logVars>>

\* `aptos move publish`, and main's match on publish()
Publish ==
    /\ pc = "publish"
    /\ events' = Append(events, "publish")
    /\ \/ /\ Panic
          /\ UNCHANGED <<publish_status, publish_result, cleanupVars>>
       \/ /\ publish_status' = <<0>>
          /\ publish_result' = <<"Ok">>
          /\ pc' = "mode"
          /\ UNCHANGED <<exit_code, cleanupVars>>
       \/ /\ publish_status' = <<1>>
          /\ publish_result' = <<"Err">>
          /\ CallCleanup(children[1], "exit1")
          /\ UNCHANGED exit_code
    /\ UNCHANGED <<args, compile_status, wait_entry_fired, signalVars, childVars, pipeVars, nodeVars, sleeps,
                   fund_status, e2e_status, logVars>>

-----------------------------------------------------------------------------
(* main: interactive wait or the end to end tests. *)

\* `if args.interactive { .. } else { .. }`
Mode ==
    /\ pc = "mode"
    /\ IF args.interactive
       THEN /\ events' = Append(events, "interactive_wait")
            /\ wait_entry_fired' = <<fired>>
            /\ pc' = "recv"
       ELSE /\ pc' = "e2e_spawn"
            /\ UNCHANGED <<events, wait_entry_fired>>
    /\ UNCHANGED <<args, compile_status, publish_result, exit_code, signalVars, childVars, pipeVars, nodeVars,
                   cleanupVars, sleeps, statusVars, logVars>>

\* rx.recv(): blocks while the channel is empty; then cleanup(children, &args)
Recv ==
    /\ pc = "recv"
    /\ chan > 0
    /\ chan' = chan - 1
    /\ CallCleanup(children[1], "done")
    /\ UNCHANGED <<args, histVars, exit_code, fired, childVars, pipeVars, nodeVars,
                   events, sleeps, statusVars, logVars>>

\* e2e_tests() under cleanup_expect!
SpawnE2e ==
    /\ pc = "e2e_spawn"
    /\ events' = Append(events, "e2e_spawn")
    /\ \/ /\ CallCleanup(children[1], "exit1")
          /\ UNCHANGED spawned
       \/ /\ spawned' = spawned \cup {"e2e"}
          /\ pc' = "e2e_wait"
          /\ UNCHANGED cleanupVars
    /\ UNCHANGED <<args, histVars, exit_code, signalVars, signalled, reaped, pipeVars,
                   nodeVars, sleeps, statusVars, logVars>>

\* main with a failed test run ending the process at once
WaitE2e_StatusChecked ==
    /\ pc = "e2e_wait"
    /\ \/ /\ Panic
          /\ UNCHANGED <<reaped, e2e_status, cleanupVars>>
       \/ /\ e2e_status' = <<0>>
          /\ reaped' = reaped \cup {"e2e"}
          /\ CallCleanup(children[1], "done")
          /\ UNCHANGED exit_code
       \/ /\ e2e_status' = <<1>>
          /\ reaped' = reaped \cup {"e2e"}
          /\ Exit(1)
          /\ UNCHANGED cleanupVars
    /\ UNCHANGED <<args, histVars, signalVars, spawned, signalled, pipeVars,
                   nodeVars, events, sleeps, fund_status, publish_status,
                   logVars>>

\* e2e_child.wait().expect(..); then cleanup(children, &args)
WaitE2e ==
    /\ pc = "e2e_wait"
    /\ \/ /\ Panic
          /\ UNCHANGED <<reaped, e2e_status, cleanupVars>>
       \/ /\ \E st \in ExitStatuses : e2e_status' = <<st>>
          /\ reaped' = reaped \cup {"e2e"}
          /\ CallCleanup(children[1], "done")
          /\ UNCHANGED exit_code
    /\ UNCHANGED <<args, histVars, signalVars, spawned, signalled, pipeVars, nodeVars,
                   events, sleeps, fund_status, publish_status, logVars>>

-----------------------------------------------------------------------------
(* cleanup.  Each kill, wait and file operation is an .expect(..). *)

\* cleanup, past the children: `if args.log_node { .. }`
AfterChildren == IF args.log_node THEN "cl_log_create" ELSE "cl_return"

\* node_child.kill().expect(..)
KillNode ==
    /\ pc = "cl_kill_node"
    /\ \/ /\ Panic
          /\ UNCHANGED signalled
       \/ /\ signalled' = signalled \cup {cl_children[1].node}
          /\ pc' = "cl_wait_node"
          /\ UNCHANGED exit_code
    /\ UNCHANGED <<args, histVars, signalVars, spawned, reaped, pipeVars, nodeVars,
                   cleanupVars, events, sleeps, statusVars, logVars>>

\* node_child.wait_with_output().expect(..)
WaitNode ==
    /\ pc = "cl_wait_node"
    /\ \/ /\ Panic
          /\ UNCHANGED <<reaped, node_drained>>
       \/ /\ reaped' = reaped \cup {cl_children[1].node}
          /\ node_drained' \in DrainedTexts("n")
          /\ pc' = IF cl_children[1].faucet THEN "cl_kill_faucet"
                   ELSE AfterChildren
          /\ UNCHANGED exit_code
    /\ UNCHANGED <<args, histVars, signalVars, spawned, signalled, pipeVars, nodeVars,
                   cleanupVars, events, sleeps, statusVars, faucet_drained,
                   log_file>>

\* faucet_child.kill().expect(..)
KillFaucet ==
    /\ pc = "cl_kill_faucet"
    /\ \/ /\ Panic
          /\ UNCHANGED signalled
       \/ /\ signalled' = signalled \cup {"faucet"}
          /\ pc' = "cl_wait_faucet"
          /\ UNCHANGED exit_code
    /\ UNCHANGED <<args, histVars, signalVars, spawned, reaped, pipeVars, nodeVars,
                   cleanupVars, events, sleeps, statusVars, logVars>>

\* faucet_child.wait_with_output().expect(..)
WaitFaucet ==
    /\ pc = "cl_wait_faucet"
    /\ \/ /\ Panic
          /\ UNCHANGED <<reaped, faucet_drained>>
       \/ /\ reaped' = reaped \cup {"faucet"}
          /\ faucet_drained' \in DrainedTexts("f")
          /\ pc' = AfterChildren
          /\ UNCHANGED exit_code
    /\ UNCHANGED <<args, histVars, signalVars, spawned, signalled, pipeVars, nodeVars,
                   cleanupVars, events, sleeps, statusVars, node_drained,
                   log_file>>

\* File::create("validator.log").expect(..)
CreateLog ==
    /\ pc = "cl_log_create"
    /\ \/ /\ Panic
          /\ UNCHANGED log_file
       \/ /\ log_file' = << <<>> >>
          /\ pc' = "cl_log_write"
          /\ UNCHANGED exit_code
    /\ UNCHANGED <<args, histVars, signalVars, childVars, pipeVars, nodeVars,
                   cleanupVars, events, sleeps, statusVars, node_drained,
                   faucet_drained>>

\* the log with the faucet's output pushed ahead of the validator's
LogString_FaucetFirst ==
    cl_children[1].scanned_output \o faucet_drained \o node_drained

\* log_string = scanned_output + node_output + faucet_output
LogString ==
    cl_children[1].scanned_output \o node_drained \o faucet_drained

\* log_file.write_all(log_string.as_bytes()).expect(..)
WriteLog ==
    /\ pc = "cl_log_write"
    /\ \/ /\ Panic
          /\ UNCHANGED log_file
       \/ /\ log_file' = <<LogString>>
          /\ pc' = "cl_return"
          /\ UNCHANGED exit_code
    /\ UNCHANGED <<args, histVars, signalVars, childVars, pipeVars, nodeVars,
                   cleanupVars, events, sleeps, statusVars, node_drained,
                   faucet_drained>>

\* cleanup returns: into std::process::exit(1), or to the end of main
CleanupReturn ==
    /\ pc = "cl_return"
    /\ ReturnFromCleanup
    /\ UNCHANGED <<args, histVars, signalVars, childVars, pipeVars, nodeVars,
                   cleanupVars, events, sleeps, statusVars, logVars>>

-----------------------------------------------------------------------------

Next ==
    \/ CtrlC
    \/ ValidatorWrite
    \/ ValidatorClose
    \/ Compile
    \/ SpawnNode
    \/ ReadExact
    \/ FindMintPath
    \/ SleepHalf
    \/ SpawnFaucet
    \/ SleepWarmup
    \/ SleepFull
    \/ FetchAccount
    \/ Fund
    \/ Publish
    \/ Mode
    \/ Recv
    \/ SpawnE2e
    \/ WaitE2e
    \/ KillNode
    \/ WaitNode
    \/ KillFaucet
    \/ WaitFaucet
    \/ CreateLog
    \/ WriteLog
    \/ CleanupReturn

Spec == Init /\ [][Next]_vars

-----------------------------------------------------------------------------
(* The scanner on its own: start_node right after read_exact, for many     *)
(* snapshot texts.                                                         *)

InitScan ==
    /\ args \in { a \in RunArgs : a.start_delay = 0 /\ a.no_compile
                                  /\ a.no_publish /\ ~a.interactive
                                  /\ ~a.log_node }
    /\ pc = "find_mint_path"
    /\ exit_code = <<>>
    /\ chan = 0
    /\ fired = 0
    /\ spawned = {"validator"}
    /\ signalled = {}
    /\ reaped = {}
    /\ stdout_written = 2 * WriteChunk
    /\ stdout_open = TRUE
    /\ node_text \in ScanTexts
    /\ node_output = <<node_text>>
    /\ mint_key_path = <<>>
    /\ faucet_arg = <<>>
    /\ children = <<>>
    /\ cl_children = <<>>
    /\ cl_ret = "done"
    /\ cleanup_calls = 0
    /\ events = <<"validator_spawn">>
    /\ sleeps = <<>>
    /\ fund_status = <<>>
    /\ publish_status = <<>>
    /\ e2e_status = <<>>
    /\ node_drained = <<>>
    /\ faucet_drained = <<>>
    /\ log_file = <<>>
    /\ compile_status = <<>>
    /\ publish_result = <<>>
    /\ wait_entry_fired = <<>>

NextScan == FindMintPath

SpecScan == InitScan /\ [][NextScan]_vars

-----------------------------------------------------------------------------
(* Properties. *)

Range(q) == { q[i] : i \in 1..Len(q) }

Happened(e) == e \in Range(events)

Exited == pc = "exited"

\* C6: for every startup text <prefix lines><marker>: "<path>"<line break>
\* <rest> whose path holds no quote and no line break (it may hold ':'),
\* find_mint_path returns exactly <path>.
C6_ReturnsAnyPath ==
    \A pre \in PrefixLines, p \in Paths, r \in Rests :
        (Happened("scan") /\ node_output = <<WellFormedText(pre, p, r)>>)
            => mint_key_path = <<p>>

\* C6 for the paths without ':' (what test_mint_path exercises).
C6_ReturnsColonFreePath ==
    \A pre \in PrefixLines, p \in Paths, r \in Rests :
        (Happened("scan") /\ node_output = <<WellFormedText(pre, p, r)>>
         /\ ":" \notin Range(p))
            => mint_key_path = <<p>>

\* C7: on a startup text without the marker phrase find_mint_path fails
\* (the .expect panics) and yields no path, whatever ':' and line breaks
\* the text holds.
C7_NoMarkerNoPath ==
    (Happened("scan") /\ ~Contains(node_output[1], Marker))
        => /\ mint_key_path = <<>>
           /\ Exited
           /\ exit_code = <<PANIC_EXIT>>

C7_Witness ==
    /\ Happened("scan")
    /\ ~Contains(node_output[1], Marker)
    /\ Contains(node_output[1], <<":">>)
    /\ Contains(node_output[1], <<"\n">>)
    /\ Contains(node_output[1], MarkerCut)
    /\ Exited

-----------------------------------------------------------------------------
(* The run as a whole. *)

\* the validator and the faucet, of the children spawned
NetworkChildren == spawned \cap {"validator", "faucet"}

\* position of the first e in events, 0 when e has not happened
Pos(e) ==
    IF Happened(e)
    THEN CHOOSE i \in 1..Len(events) :
             events[i] = e /\ \A j \in 1..(i - 1) : events[j] # e
    ELSE 0

\* C1: in every run in which start_node returned its tuple, cleanup has
\* been called exactly once when the process ends, whatever happened after.
C1_CleanupExactlyOnce ==
    (Exited /\ children # <<>>) => cleanup_calls = 1

\* C2: when the process has ended, on whatever path, every validator and
\* faucet spawned in the run has been sent the kill signal.
C2_NoChildLeaked ==
    Exited => NetworkChildren \subseteq signalled

\* C3: once publish has exited non-zero, no test runner is started and no
\* interactive wait entered, and when the process ends the validator and
\* the faucet have been killed and the exit code is 1.
C3_PublishFailureTornDown ==
    publish_status = <<1>> =>
        /\ ~Happened("e2e_spawn")
        /\ ~Happened("interactive_wait")
        /\ Exited => /\ NetworkChildren \subseteq signalled
                     /\ exit_code = <<1>>

\* C4: when the validator's stdout closed before 450 bytes were read and
\* the process ended without a snapshot, the exit code is 1 and no faucet
\* spawn was attempted.
C4_PrematureCloseExitsOne ==
    (Exited /\ "validator" \in spawned /\ node_output = <<>>
     /\ ~stdout_open /\ stdout_written < SNAPSHOT_SIZE)
        => /\ exit_code = <<1>>
           /\ ~Happened("faucet_spawn")

\* the run ended through the last cleanup of main
EndedThroughFinalCleanup ==
    /\ cleanup_calls = 1
    /\ cl_ret = "done"
    /\ e2e_status # <<>> \/ Happened("interactive_wait")

\* C5: the exit code is 0 or 1: 0 exactly when the run ended through the
\* final teardown (tests finished, or interactive wait cancelled), 1 for
\* every fatal error.
C5_ExitCodeZeroOrOne ==
    Exited => /\ exit_code \in { <<0>>, <<1>> }
              /\ exit_code = <<0>> <=> EndedThroughFinalCleanup

\* C8: when start_node has returned, the faucet slot of the tuple is empty
\* exactly if no_faucet is set; a faucet in it was spawned after the scan
\* produced the credential path, with that path as its mint key argument.
C8_FaucetSlot ==
    children # <<>> =>
        /\ ~children[1].faucet <=> args.no_faucet
        /\ children[1].faucet =>
              /\ "faucet" \in spawned
              /\ mint_key_path # <<>>
              /\ faucet_arg = mint_key_path
              /\ 0 < Pos("scan")
              /\ Pos("scan") < Pos("faucet_spawn")

C8_Witness ==
    /\ children # <<>>
    /\ children[1].faucet
    /\ faucet_arg = << <<"/", "k">> >>
    /\ Pos("scan") < Pos("faucet_spawn")

\* the phases of a run, in the order of main and start_node
PhaseEvents ==
    { "validator_spawn", "scan", "faucet_spawn", "fund", "publish",
      "e2e_spawn", "interactive_wait" }

Rank(e) ==
    CASE e = "validator_spawn" -> 1
      [] e = "scan" -> 2
      [] e = "faucet_spawn" -> 3
      [] e = "fund" -> 4
      [] e = "publish" -> 5
      [] e \in {"e2e_spawn", "interactive_wait"} -> 6

\* C9: the phase events of a run occur in the order validator spawn, scan,
\* faucet spawn, fund, publish, test runner spawn or interactive wait; none
\* occurs before a later one, and none before the validator spawn.
C9_PhaseOrder ==
    /\ \A i, j \in 1..Len(events) :
           (i < j /\ events[i] \in PhaseEvents /\ events[j] \in PhaseEvents)
               => Rank(events[i]) < Rank(events[j])
    /\ \A i \in 1..Len(events) :
           events[i] \in PhaseEvents
               => /\ Happened("validator_spawn")
                  /\ Pos("validator_spawn") <= i

C9_Witness ==
    /\ Happened("faucet_spawn")
    /\ Happened("fund")
    /\ Happened("publish")
    /\ Happened("e2e_spawn")
    /\ Len(SelectSeq(events, LAMBDA e : e \in PhaseEvents)) = 6

\* C10: in interactive mode no test runner is started, the wait is left
\* only once the Ctrl-C handler has fired, and the run then ends with
\* cleanup called exactly once and exit code 0.
C10_InteractiveExit ==
    args.interactive =>
        /\ ~Happened("e2e_spawn")
        /\ (Happened("interactive_wait") /\ pc # "recv") => fired > 0
        /\ (Happened("interactive_wait") /\ Exited)
               => /\ cleanup_calls = 1
                  /\ exit_code = <<0>>

\* the positions of the main thread inside cleanup
CleanupPcs ==
    { "cl_kill_node", "cl_wait_node", "cl_kill_faucet", "cl_wait_faucet",
      "cl_log_create", "cl_log_write", "cl_return" }

\* C11: in testing mode, once the test runner has exited, main has gone on
\* into the final cleanup of the tuple start_node returned, for exit status
\* zero and non-zero alike.
C11_TestStatusIgnored ==
    e2e_status # <<>> =>
        /\ ~args.interactive
        /\ cleanup_calls = 1
        /\ cl_ret = "done"
        /\ cl_children = children
        /\ pc \in CleanupPcs \cup {"exited"}
        /\ "validator" \in signalled \/ pc = "cl_kill_node"
               \/ exit_code = <<PANIC_EXIT>>

C11_Witness ==
    /\ e2e_status = <<1>>
    /\ cleanup_calls = 1
    /\ {"validator", "faucet"} \subseteq signalled
    /\ exit_code = <<0>>

\* C12: when cleanup was called because of an earlier fatal error (publish
\* failed, faucet or test runner could not be spawned), the process ends
\* with exit code 1, also when a step of cleanup itself fails.
C12_CleanupFailureKeepsExitOne ==
    (Exited /\ cleanup_calls = 1 /\ cl_ret = "exit1") => exit_code = <<1>>

\* the faucet was requested and its spawn failed
FaucetSpawnFailed == Happened("faucet_spawn") /\ "faucet" \notin spawned

\* C13: when the faucet spawn has failed, start_node never returns a tuple,
\* and when the process ends the validator has been killed and drained and
\* the exit code is 1.
C13_FaucetSpawnFailure ==
    FaucetSpawnFailed =>
        /\ children = <<>>
        /\ Exited => /\ "validator" \in signalled
                     /\ "validator" \in reaped
                     /\ exit_code = <<1>>

\* C20: when cleanup was called on a tuple holding a validator and a faucet
\* and the process has ended, both have been sent the kill signal, also
\* when killing or draining the validator failed.
C20_BothChildrenKilled ==
    (Exited /\ cl_children # <<>> /\ cl_children[1].faucet)
        => {"validator", "faucet"} \subseteq signalled

\* C14: when the compile command has exited non-zero the process has ended
\* with exit code 1, no child was ever spawned and cleanup was not called;
\* with no_compile set no compile command is run and main goes straight on
\* to start_node.
C14_CompileFailureExitsEarly ==
    /\ compile_status = <<1>> =>
           /\ Exited
           /\ exit_code = <<1>>
           /\ spawned = {}
           /\ cleanup_calls = 0
           /\ events = <<"compile">>
    /\ args.no_compile =>
           /\ ~Happened("compile")
           /\ compile_status = <<>>
           /\ pc # "compile" =>
                  \/ pc = "spawn_node"
                  \/ events # <<>> /\ events[1] = "validator_spawn"
    /\ (~args.no_compile /\ pc # "compile") => events[1] = "compile"

C14_Witness ==
    /\ compile_status = <<1>>
    /\ ~args.no_compile
    /\ Exited
    /\ exit_code = <<1>>

\* C15: whatever the exit status of the funding command, publish is invoked
\* after it, and publish() returns Ok exactly when the publish command
\* exits zero and Err exactly when it exits non-zero.
C15_PublishStatusDecides ==
    /\ fund_status # <<>> => pc = "publish" \/ Happened("publish")
    /\ Happened("publish") => fund_status # <<>>
    /\ publish_result = <<"Ok">> <=> publish_status = <<0>>
    /\ publish_result = <<"Err">> <=> publish_status = <<1>>

C15_Witness ==
    /\ fund_status = <<1>>
    /\ publish_status = <<0>>
    /\ publish_result = <<"Ok">>

\* C16: when start_node has returned, for every start_delay d (odd ones
\* too): with the faucet enabled it slept twice, half of d before the faucet
\* spawn and the rest after, d in all; with the faucet disabled it slept
\* once, for d.
C16_SleepsSumToDelay ==
    children # <<>> =>
        IF args.no_faucet
        THEN sleeps = <<args.start_delay>>
        ELSE /\ Len(sleeps) = 2
             /\ sleeps[1] + sleeps[2] = args.start_delay

\* C16 for the even delays.
C16_EvenDelaySleeps ==
    (children # <<>> /\ args.start_delay % 2 = 0) =>
        IF args.no_faucet
        THEN sleeps = <<args.start_delay>>
        ELSE /\ Len(sleeps) = 2
             /\ sleeps[1] + sleeps[2] = args.start_delay

\* the one call of cleanup has run to its end
CleanupCompleted ==
    /\ cleanup_calls = 1
    /\ pc = "cl_return" \/ (Exited /\ exit_code # <<PANIC_EXIT>>)

\* C17: after a completed cleanup with log_node set, validator.log holds
\* the bootstrap snapshot, then the validator output drained at shutdown,
\* then the faucet stderr drained at shutdown (empty when the tuple holds no
\* faucet); with log_node unset no log is written.
C17_LogContent ==
    CleanupCompleted =>
        IF args.log_node
        THEN /\ log_file = <<node_output[1] \o node_drained \o faucet_drained>>
             /\ ~cl_children[1].faucet => faucet_drained = <<>>
        ELSE log_file = <<>>

C17_Witness ==
    /\ CleanupCompleted
    /\ args.log_node
    /\ node_drained = <<"n">>
    /\ faucet_drained = <<"f">>
    /\ Len(log_file[1]) = Len(node_output[1]) + 2

\* a run of the Ctrl-C handler leaves the main thread and the children as
\* they are
FiringInterruptsNothing ==
    fired' > fired =>
        /\ pc' = pc
        /\ exit_code' = exit_code
        /\ UNCHANGED <<childVars, cleanupVars, events>>

\* the wait is left on a firing that came after the wait was entered
WaitNeedsNewSignal ==
    (pc = "recv" /\ pc' # "recv") => fired > wait_entry_fired[1]

\* C19: a firing of the Ctrl-C handler interrupts no phase, and the
\* interactive wait returns only on a firing that happened during the wait:
\* one from compile, bootstrap or deployment is not carried over.
C19_SignalOnlyInWait ==
    [][FiringInterruptsNothing /\ WaitNeedsNewSignal]_vars

\* C19 without the carry-over part.
C19_FiringInterruptsNothing == [][FiringInterruptsNothing]_vars

-----------------------------------------------------------------------------
(* The bootstrap alone, with the main thread scheduled fairly: main up to  *)
(* the return of start_node, and the cleanup start_node itself calls.  The *)
(* validator is under no obligation to write or to close its stdout.       *)

\* the steps of the main thread up to the return of start_node
BootstrapStep ==
    \/ Compile
    \/ SpawnNode
    \/ ReadExact
    \/ FindMintPath
    \/ SleepHalf
    \/ SpawnFaucet
    \/ SleepWarmup
    \/ SleepFull
    \/ KillNode
    \/ WaitNode
    \/ CreateLog
    \/ WriteLog
    \/ CleanupReturn

NextBootstrap ==
    \/ ValidatorWrite
    \/ ValidatorClose
    \/ BootstrapStep

SpecBootstrap == Init /\ [][NextBootstrap]_vars /\ WF_vars(BootstrapStep)

\* start_node has returned its tuple, or the process has ended
BootstrapEnded == children # <<>> \/ Exited

\* the snapshot is there, or the validator's stdout has ended
SnapshotReadable == stdout_written >= SNAPSHOT_SIZE \/ ~stdout_open

\* C18: once the validator has been spawned, start_node eventually returns
\* its tuple or the process ends, whatever the validator does, also when it
\* writes fewer than 450 bytes and keeps its stdout open.
C18_BootstrapEnds ==
    ("validator" \in spawned) ~> BootstrapEnded

\* C18, amended: once the validator has been spawned and has written the
\* 450 bytes or closed its stdout, start_node eventually returns its tuple
\* or the process ends.
C18_BootstrapEndsOnceReadable ==
    ("validator" \in spawned /\ SnapshotReadable) ~> BootstrapEnded

C18_Witness ==
    /\ "validator" \in spawned
    /\ stdout_written >= SNAPSHOT_SIZE
    /\ children # <<>>

====
